---- MODULE Spec2Model ----
(***************************************************************************)
(* almdrlib.client: the OpenAPI v3 dynamic client builder.                 *)
(*                                                                         *)
(* The module models src/almdrlib/client.py as state machines:             *)
(*   Spec       one caller invoking operations of a loaded client, one     *)
(*              call after the other (Operation.__call__ and the closure   *)
(*              built by Operation._gen_call, step by step);               *)
(*   SpecConc   several callers invoking operations that share one Server, *)
(*              from their first invocation on;                            *)
(*   SpecQuery  PathParameter.serialize_query_parameter on drawn inputs;   *)
(*   SpecOrder  PathParameter.__lt__, sorted() and                         *)
(*              Operation._make_signature on drawn parameter lists;        *)
(*   SpecLoad   Client.__init__ / load_spec / _initialize_operations on    *)
(*              drawn spec documents;                                      *)
(*   SpecServer Server.__init__ and Server.url on drawn server specs and   *)
(*              variables.                                                 *)
(*                                                                         *)
(* Python values are tagged records [ty, v]: ty is the Python/JSON type.   *)
(* Python dicts are functions whose DOMAIN is the set of keys.             *)
(***************************************************************************)
EXTENDS Integers, Sequences, FiniteSets, TLC

VARIABLES
    server_url,   \* Server._url of the Server shared by the operations
    session,      \* the session collaborator: what get_default answers
    frame,        \* per caller: the position and locals of its __call__
    q,            \* SpecQuery: the drawn input and the serialized result
    ord,          \* SpecOrder: the drawn parameters and what was derived
    ld,           \* SpecLoad: the spec document and the client built from it
    op_call,      \* per operation: Operation._call, the closure of _gen_call
    sv            \* SpecServer: the drawn server spec and its resolved URL

vars == <<server_url, session, frame, q, ord, ld, op_call, sv>>

(***************************************************************************)
(* Bounds of the model.                                                    *)
(***************************************************************************)
NumCallers == 2
MaxArrayLen == 2
MaxSigParams == 3
MaxDocOps == 3

(***************************************************************************)
(* Python values and dicts.                                                *)
(***************************************************************************)
Str(s) == [ty |-> "str", v |-> s]
List(s) == [ty |-> "list", v |-> s]
Bool(b) == [ty |-> "bool", v |-> b]
Dict(d) == [ty |-> "dict", v |-> d]

EmptyDict == <<>>

\* d[k] = v
DictSet(d, k, v) == [x \in (DOMAIN d) \cup {k} |-> IF x = k THEN v ELSE d[x]]

\* d with key k removed (the dict after d.pop(k))
DictPop(d, k) == [x \in (DOMAIN d) \ {k} |-> d[x]]

\* d.update(e)
DictUpdate(d, e) ==
    [x \in (DOMAIN d) \cup (DOMAIN e) |-> IF x \in DOMAIN e THEN e[x] ELSE d[x]]

\* spec.get(k, dflt)
DictGet(d, k, dflt) == IF k \in DOMAIN d THEN d[k] ELSE dflt

PyNone == [ty |-> "NoneType", v |-> "None"]

IsNone(x) == x.ty = "NoneType"

\* Python truthiness: bool(x)
Truthy(x) ==
    CASE x.ty = "NoneType" -> FALSE
      [] x.ty = "bool" -> x.v
      [] x.ty = "str" -> x.v # ""
      [] x.ty = "list" -> Len(x.v) > 0
      [] x.ty = "dict" -> Len(x.v) > 0
      [] OTHER -> TRUE

\* delimiter.join(seq) on a sequence of strings
RECURSIVE Join(_, _)
Join(delimiter, seq) ==
    IF Len(seq) = 0 THEN ""
    ELSE IF Len(seq) = 1 THEN seq[1]
    ELSE seq[1] \o delimiter \o Join(delimiter, Tail(seq))

\* repr of the elements of a list, as str(list) prints them
RECURSIVE ReprItems(_)
ReprItems(seq) ==
    IF Len(seq) = 0 THEN <<>>
    ELSE <<"'" \o seq[1] \o "'">> \o ReprItems(Tail(seq))

\* str(x)
PyStr(x) ==
    CASE x.ty = "str" -> x.v
      [] x.ty = "bool" -> IF x.v THEN "True" ELSE "False"
      [] x.ty = "NoneType" -> "None"
      [] x.ty = "list" -> "[" \o Join(", ", ReprItems(x.v)) \o "]"
      [] OTHER -> "{...}"

\* s.lower(), on the strings the model produces
Lower(s) ==
    CASE s = "True" -> "true"
      [] s = "False" -> "false"
      [] s = "None" -> "none"
      [] OTHER -> s

\* json.dumps(x): the JSON text of x, kept as a value distinct from x
JsonDumps(x) == [ty |-> "json", v |-> x]

\* data.encode(): the bytes of a str
Encode(x) == [ty |-> "bytes", v |-> x.v]

(***************************************************************************)
(* The session collaborator (consumed, not implemented by client.py).      *)
(***************************************************************************)
ServiceName == "svc"

Accounts == {"acct1", "acct2"}

\* session.get_url(service_name, account_id): the endpoint of the account's
\* residency; without an account, the global endpoint.
get_url(service_name, account_id) ==
    "https://" \o service_name \o "." \o account_id.v

\* session.get_default(name)
get_default(name) == DictGet(session.defaults, name, PyNone)

(***************************************************************************)
(* Server                                                                  *)
(***************************************************************************)
\* Server.update_url: the new value of Server._url
update_url(account_id) == get_url(ServiceName, account_id)

\* The URL a Server is constructed with (x-alertlogic-session-endpoint and
\* a session: Server.__init__ calls update_url() with account_id=None)
InitialServerUrl == update_url(PyNone)

\* Server.url (no variables: the template is the URL)
ServerUrl(url) == url

(***************************************************************************)
(* Exceptions                                                              *)
(***************************************************************************)
\* An exception: its class, what it says (a message kind), the names the
\* message carries, and the operation identity it was wrapped with.
Exc(cls, msg, names) ==
    [cls |-> cls, msg |-> msg, names |-> names, op |-> "", cause |-> ""]

NoExc == [cls |-> "", msg |-> "", names |-> {}, op |-> "", cause |-> ""]

(***************************************************************************)
(* PathParameter                                                           *)
(***************************************************************************)
Locations == {"path", "query", "header", "cookie"}

\* PathParameter._init_name: name.replace('-', '_') on the declared names
PyName(name) ==
    CASE name = "content-type" -> "content_type"
      [] name = "x-tok" -> "x_tok"
      [] name = "account-id" -> "account_id"
      [] OTHER -> name

default_style(parameter_in) ==
    CASE parameter_in = "query" -> "form"
      [] parameter_in = "path" -> "simple"
      [] parameter_in = "header" -> "simple"
      [] parameter_in = "cookie" -> "form"
      [] OTHER -> "simple"

default_explode(style) == style = "form"

\* PathParameter.__init__ from a parameter's spec (a dict)
PathParameter(spec) ==
    LET style == DictGet(spec, "style", default_style(spec["in"]))
    IN  [loc |-> spec["in"],
         name |-> PyName(spec["name"]),
         schema_name |-> spec["name"],
         declared_required |-> DictGet(spec, "required", FALSE),
         datatype |-> DictGet(spec, "type", "string"),
         style |-> style,
         explode |-> DictGet(spec, "explode", default_explode(style))]

\* PathParameter.required (property)
required(p) == p.declared_required \/ p.loc = "path"

\* PathParameter.default (property)
default(p) == get_default(p.name)

serialize_value(datatype, value) ==
    CASE datatype = "string" -> value
      [] datatype = "boolean" -> IF Truthy(value) THEN Str("true") ELSE Str("false")
      [] OTHER -> Str(PyStr(value))

\* [f'{a},{b}' for (a, b) in value.items()]
RECURSIVE SerializedPairs(_)
SerializedPairs(items) ==
    IF Len(items) = 0 THEN <<>>
    ELSE <<items[1][1] \o "," \o items[1][2]>> \o SerializedPairs(Tail(items))

\* dict(value): the mapping a dict value passes through as
ItemsToDict(items) ==
    [k \in {items[i][1] : i \in DOMAIN items} |->
        Str(items[CHOOSE i \in DOMAIN items :
                    /\ items[i][1] = k
                    /\ \A j \in DOMAIN items : items[j][1] = k => j <= i][2])]

ValidStyles == {"form", "spaceDelimited", "pipeDelimited"}

\* Mutant of Delimiter: every style joins with the form style's comma
Delimiter_comma(style) == ","

\* The delimiter serialize_query_parameter joins an array with
Delimiter(style) ==
    CASE style = "spaceDelimited" -> " "
      [] style = "pipeDelimited" -> "|"
      [] OTHER -> ","

\* PathParameter.serialize_query_parameter: [exc, result]; result is the dict
\* of new query parameters when exc is NoExc.
serialize_query_parameter(style, explode, name, datatype, value) ==
    IF style \notin ValidStyles
    THEN [exc |-> Exc("ValueError", "invalid style", {name}), result |-> EmptyDict]
    ELSE [exc |-> NoExc,
          result |->
            IF datatype = "object" /\ style = "form"
            THEN IF explode THEN ItemsToDict(value.v)
                 ELSE DictSet(EmptyDict, name, Str(Join(",", SerializedPairs(value.v))))
            ELSE IF datatype = "array"
            THEN IF explode THEN DictSet(EmptyDict, name, value)
                 ELSE DictSet(EmptyDict, name, Str(Join(Delimiter(style), value.v)))
            ELSE IF datatype = "boolean"
            THEN DictSet(EmptyDict, name, Str(Lower(PyStr(value))))
            ELSE DictSet(EmptyDict, name, value)]

\* Mutant of RaisesWhenMissing: the raise is left out
RaisesWhenMissing_never(p) == FALSE

\* PathParameter.serialize, "if self._required: raise ValueError(...)": whether
\* a parameter with neither an argument nor a default is an error
RaisesWhenMissing(p) == p.declared_required

\* PathParameter.serialize on the locals of one call: c holds path_params,
\* params (the query), headers, cookies, kwargs and exc (set when it raises).
PathParameter_serialize(p, c) ==
    IF p.name \notin DOMAIN c.kwargs /\ ~Truthy(default(p))
    THEN IF RaisesWhenMissing(p)
         THEN [c EXCEPT !.exc = Exc("ValueError", "is required", {p.name})]
         ELSE c
    ELSE LET raw_value == DictGet(c.kwargs, p.name, default(p))
             kw == DictPop(c.kwargs, p.name)
             value == serialize_value(p.datatype, raw_value)
         IN  CASE p.loc = "path" ->
                    [c EXCEPT !.kwargs = kw,
                              !.path_params = DictSet(@, p.schema_name, value)]
               [] p.loc = "query" ->
                    LET r == serialize_query_parameter(
                                 p.style, p.explode, p.name, p.datatype, raw_value)
                    IN  IF r.exc.cls # ""
                        THEN [c EXCEPT !.kwargs = kw, !.exc = r.exc]
                        ELSE [c EXCEPT !.kwargs = kw,
                                       !.params = DictUpdate(@, r.result)]
               [] p.loc = "header" ->
                    [c EXCEPT !.kwargs = kw,
                              !.headers = DictSet(@, p.schema_name, value)]
               [] p.loc = "cookie" ->
                    [c EXCEPT !.kwargs = kw,
                              !.cookies = DictSet(@, p.schema_name, value)]
               [] OTHER -> [c EXCEPT !.kwargs = kw]

(***************************************************************************)
(* RequestBodyParameter and its three variants                             *)
(***************************************************************************)
SimpleDataTypes == {"string", "boolean", "integer", "number"}

\* The JSON type of a Python value
JsonType(x) ==
    CASE x.ty = "str" -> "string"
      [] x.ty = "bool" -> "boolean"
      [] x.ty = "list" -> "array"
      [] x.ty = "dict" -> "object"
      [] OTHER -> "null"

\* The validator's verdict on an object (a dict of property values) against
\* an object schema: required properties present, property types as declared.
ObjectValid(schema, data) ==
    /\ \A r \in DictGet(schema, "required", {}) : r \in DOMAIN data
    /\ \A k \in DOMAIN data :
          k \in DOMAIN schema["properties"] =>
              \/ "type" \notin DOMAIN schema["properties"][k]
              \/ schema["properties"][k]["type"] = JsonType(data[k])

\* The validator's verdict on any value against a schema that declares a type
ValueValid(schema, x) ==
    "type" \in DOMAIN schema => schema["type"] = JsonType(x)

_normalize_schema(name, schema, required_) ==
    IF "properties" \in DOMAIN schema /\ DOMAIN schema["properties"] # {}
    THEN schema
    ELSE IF required_
         THEN [type |-> "object",
               properties |-> DictSet(EmptyDict, name, schema),
               required |-> {name}]
         ELSE [type |-> "object",
               properties |-> DictSet(EmptyDict, name, schema)]

\* RequestBodyObjectParameter.__init__
RequestBodyObjectParameter(name, content_type, schema, al_schema, required_) ==
    LET norm == _normalize_schema(name, schema, required_)
    IN  [kind |-> "object",
         name |-> name,
         content_type |-> content_type,
         schema |-> norm,
         required |-> required_,
         explode |-> /\ "encoding" \in DOMAIN al_schema
                     /\ DictGet(al_schema["encoding"], "explode", FALSE),
         properties |-> DOMAIN norm["properties"],
         required_properties |-> DictGet(norm, "required", {})]

\* RequestBodySimpleParameter.__init__
RequestBodySimpleParameter(name, content_type, schema, required_) ==
    [kind |-> "simple",
     name |-> name,
     content_type |-> content_type,
     schema |-> schema,
     required |-> required_,
     format |-> DictGet(schema, "format", "")]

\* RequestBodySchemaParameter.__init__
RequestBodySchemaParameter(name, content_type, schema, required_) ==
    [kind |-> "schema",
     name |-> name,
     content_type |-> content_type,
     schema |-> schema,
     required |-> required_]

\* Mutant of AllRequiredSupplied: any() in place of all()
AnyRequiredSupplied(required_properties, kwargs) ==
    \/ required_properties = {}
    \/ \E name \in required_properties : name \in DOMAIN kwargs

\* all(name in kwargs for name in self._required_properties)
AllRequiredSupplied(required_properties, kwargs) ==
    \A name \in required_properties : name \in DOMAIN kwargs

\* RequestBodyObjectParameter.serialize on the locals c of one call
RequestBodyObjectParameter_serialize(bp, c) ==
    IF ~AllRequiredSupplied(bp.required_properties, c.kwargs)
    THEN [c EXCEPT !.exc = Exc("AlmdrlibValueError", "parameters are required",
                               bp.required_properties)]
    ELSE LET taken == bp.properties \cap DOMAIN c.kwargs
             result == [k \in taken |-> c.kwargs[k]]
             kw == [k \in (DOMAIN c.kwargs) \ taken |-> c.kwargs[k]]
         IN  IF bp.required /\ taken = {}
             THEN [c EXCEPT !.kwargs = kw,
                            !.exc = Exc("AlmdrlibValueError", "at least one",
                                        bp.properties)]
             ELSE IF ~ObjectValid(bp.schema, result)
             THEN [c EXCEPT !.kwargs = kw,
                            !.exc = Exc("AlmdrlibValueError", "validation error", {})]
             ELSE IF bp.explode
             THEN IF bp.name \in taken
                  THEN [c EXCEPT !.kwargs =
                            DictSet(kw, "data", JsonDumps(result[bp.name]))]
                  ELSE [c EXCEPT !.kwargs = kw,
                                 !.exc = Exc("KeyError", "key", {bp.name})]
             ELSE [c EXCEPT !.kwargs = DictSet(kw, "data", JsonDumps(Dict(result)))]

\* RequestBodySimpleParameter.serialize
RequestBodySimpleParameter_serialize(bp, c) ==
    LET data == DictGet(c.kwargs, bp.name, Str(""))
        kw == DictPop(c.kwargs, bp.name)
    IN  IF bp.format = "binary" /\ data.ty # "bytes"
        THEN IF data.ty = "str"
             THEN [c EXCEPT !.kwargs = DictSet(kw, "data", Encode(data))]
             ELSE [c EXCEPT !.kwargs = kw,
                            !.exc = Exc("AttributeError", "encode", {bp.name})]
        ELSE [c EXCEPT !.kwargs = DictSet(kw, "data", data)]

\* RequestBodySchemaParameter.serialize
RequestBodySchemaParameter_serialize(bp, c) ==
    LET data == DictGet(c.kwargs, bp.name, Dict(EmptyDict))
        kw == DictPop(c.kwargs, bp.name)
    IN  IF bp.content_type \in {"application/json", "alertlogic/json"}
        THEN IF ~ValueValid(bp.schema, data)
             THEN [c EXCEPT !.kwargs = kw,
                            !.exc = Exc("AlmdrlibValueError", "validation error", {})]
             ELSE [c EXCEPT !.kwargs = DictSet(kw, "data", JsonDumps(data))]
        ELSE [c EXCEPT !.kwargs = DictSet(kw, "data", data)]

\* payload_body_param.serialize(kwargs, headers): the variant's own method
RequestBodyParameter_serialize(bp, c) ==
    CASE bp.kind = "object" -> RequestBodyObjectParameter_serialize(bp, c)
      [] bp.kind = "simple" -> RequestBodySimpleParameter_serialize(bp, c)
      [] OTHER -> RequestBodySchemaParameter_serialize(bp, c)

(***************************************************************************)
(* RequestBody                                                             *)
(***************************************************************************)
\* RequestBody.__init__
RequestBody(required_) ==
    [present |-> TRUE, required |-> required_,
     content |-> EmptyDict, parameters |-> EmptyDict]

\* body is None
NoBody == [present |-> FALSE]

\* RequestBody.add_content
add_content(body, content_type, schema, al_schema) ==
    IF DOMAIN schema = {}
    THEN body
    ELSE LET datatype == DictGet(schema, "type", "")
             name == DictGet(al_schema, "name", "data")
             parameter ==
                IF datatype = "object"
                THEN RequestBodyObjectParameter(
                         name, content_type, schema, al_schema, body.required)
                ELSE IF datatype \in SimpleDataTypes
                THEN RequestBodySimpleParameter(
                         name, content_type, schema, body.required)
                ELSE RequestBodySchemaParameter(
                         name, content_type, schema, body.required)
             pschema == IF parameter.kind = "object"
                        THEN parameter.properties ELSE {name}
         IN  [body EXCEPT
                !.content = DictSet(@, content_type, parameter),
                !.parameters =
                    DictSet(@, name,
                            DictSet(DictGet(@, name, EmptyDict),
                                    content_type, pschema))]

\* Mutant of default_content_type: the first content type, however many
default_content_type_first(body) ==
    IF DOMAIN body.content # {}
    THEN CHOOSE ct \in DOMAIN body.content : TRUE
    ELSE ""

\* RequestBody.default_content_type (property): "" stands for None
default_content_type(body) ==
    IF Cardinality(DOMAIN body.content) = 1
    THEN CHOOSE ct \in DOMAIN body.content : TRUE
    ELSE ""

CONTENT_TYPE_PARAM == "content-type"

CONTENT_TYPE_PYTHON_PARAM == "content_type"

\* RequestBody.serialize(headers, kwargs) on the locals c of one call
RequestBody_serialize(body, c) ==
    IF CONTENT_TYPE_PYTHON_PARAM \in DOMAIN c.kwargs
    THEN LET content_type == c.kwargs[CONTENT_TYPE_PYTHON_PARAM]
             kw == DictPop(c.kwargs, CONTENT_TYPE_PYTHON_PARAM)
         IN  IF content_type.ty = "str" /\ content_type.v \in DOMAIN body.content
             THEN RequestBodyParameter_serialize(
                      body.content[content_type.v],
                      [c EXCEPT !.kwargs = kw,
                                !.headers = DictSet(@, CONTENT_TYPE_PARAM, content_type)])
             ELSE [c EXCEPT !.kwargs = kw,
                            !.exc = Exc("KeyError", "key", {PyStr(content_type)})]
    ELSE IF CONTENT_TYPE_PARAM \in DOMAIN c.headers
    THEN LET content_type == c.headers[CONTENT_TYPE_PARAM]
         IN  IF content_type.ty = "str" /\ content_type.v \in DOMAIN body.content
             THEN RequestBodyParameter_serialize(body.content[content_type.v], c)
             ELSE [c EXCEPT !.exc = Exc("KeyError", "key", {PyStr(content_type)})]
    ELSE IF default_content_type(body) # ""
    THEN LET ct == default_content_type(body)
         IN  RequestBodyParameter_serialize(
                 body.content[ct],
                 [c EXCEPT !.headers = DictSet(@, CONTENT_TYPE_PARAM, Str(ct))])
    ELSE [c EXCEPT !.exc = Exc("AlmdrlibValueError", "content_type is required",
                               {CONTENT_TYPE_PYTHON_PARAM})]

(***************************************************************************)
(* OperationResponse, Operation, and Client._initialize_operations         *)
(***************************************************************************)
\* OperationResponse.__init__ / _add_response: the response schema kept, the
\* first content type's schema of the last 2xx response that has content
\* ("" when there is none).  codes is the responses dict's key order.
Is2xx(r_code) == r_code \in {"200", "201", "204"}

RECURSIVE OperationResponse(_, _, _)
OperationResponse(responses, codes, acc) ==
    IF Len(codes) = 0 THEN acc
    ELSE OperationResponse(
             responses, Tail(codes),
             IF /\ codes[1] \in DOMAIN responses
                /\ Is2xx(codes[1])
                /\ "content" \in DOMAIN responses[codes[1]]
                /\ Len(responses[codes[1]]["content"]) > 0
             THEN responses[codes[1]]["content"][1].schema
             ELSE acc)

ResponseCodes == <<"200", "201", "204", "404">>

\* Client._initalize_request_body: the RequestBody built from body_spec, its
\* content types added in the document's order
RECURSIVE AddContents(_, _)
AddContents(body, content) ==
    IF Len(content) = 0 THEN body
    ELSE AddContents(
             add_content(body, content[1].content_type, content[1].schema,
                         DictGet(content[1], "al_schema", EmptyDict)),
             Tail(content))

_initalize_request_body(body_spec) ==
    IF DOMAIN body_spec = {}
    THEN NoBody
    ELSE AddContents(RequestBody(DictGet(body_spec, "required", FALSE)),
                     DictGet(body_spec, "content", <<>>))

\* [PathParameter(spec=s) for s in op_spec.get(PARAMETERS, [])]
PathParameters(specs) == [i \in DOMAIN specs |-> PathParameter(specs[i])]

\* Operation.__init__
Operation(path, params_, summary, description, method, spec, body, response, client_name) ==
    [path |-> path,
     params |-> params_,
     summary |-> summary,
     description |-> description,
     method |-> method,
     spec |-> spec,
     body |-> body,
     response |-> response,
     operation_id |-> spec["operationId"],
     client_name |-> client_name]

\* Operation.__repr__: the identity an error is wrapped with
Operation_repr(o) ==
    "<" \o o.client_name \o "." \o o.operation_id \o ": " \o o.method
        \o " " \o Join("", [i \in DOMAIN o.path |->
                               IF "ph" \in DOMAIN o.path[i]
                               THEN "{" \o o.path[i].ph \o "}"
                               ELSE o.path[i].lit]) \o ">"

\* self._path.format(**path_params): [exc, url]
PathFormat(path, path_params) ==
    LET missing == {i \in DOMAIN path :
                       "ph" \in DOMAIN path[i] /\ path[i].ph \notin DOMAIN path_params}
    IN  IF missing # {}
        THEN [exc |-> Exc("KeyError", "key",
                          {path[CHOOSE i \in missing : \A j \in missing : i <= j].ph}),
              url |-> ""]
        ELSE [exc |-> NoExc,
              url |-> Join("", [i \in DOMAIN path |->
                                   IF "ph" \in DOMAIN path[i]
                                   THEN PyStr(path_params[path[i].ph])
                                   ELSE path[i].lit])]

\* The check disabled: a repeated operationId replaces the earlier operation
IsDuplicate_never(operation_id, operations) == FALSE

\* The duplicate-operationId check of _initialize_operations
IsDuplicate(operation_id, operations) == operation_id \in DOMAIN operations

\* Client._initialize_operations over self.paths (the entries of the spec
\* document, in its order): acc holds the operations built so far, the
\* document as the pops leave it, and the exception raised, if any.
RECURSIVE InitializeOperations(_, _, _)
InitializeOperations(client_name, i, acc) ==
    IF i > Len(acc.paths) \/ acc.exc.cls # ""
    THEN acc
    ELSE LET e == acc.paths[i]
             op_spec == e.op
             summary == DictGet(op_spec, "summary", "")
             description == DictGet(op_spec, "description", "")
             spec1 == DictPop(DictPop(op_spec, "summary"), "description")
             operation_id == DictGet(op_spec, "operationId", "")
             spec2 == DictPop(DictPop(spec1, "requestBody"), "responses")
         IN  IF operation_id = ""
             THEN InitializeOperations(client_name, i + 1,
                      [acc EXCEPT !.paths[i].op = spec1])
             ELSE IF IsDuplicate(operation_id, acc.operations)
             THEN [acc EXCEPT !.paths[i].op = spec1,
                              !.exc = Exc("AlmdrlibValueError", "duplication",
                                          {operation_id})]
             ELSE IF "responses" \notin DOMAIN op_spec
             THEN [acc EXCEPT !.paths[i].op = spec2,
                              !.exc = Exc("AttributeError", "items", {})]
             ELSE InitializeOperations(client_name, i + 1,
                      [acc EXCEPT
                         !.paths[i].op = spec2,
                         !.operations =
                            DictSet(@, operation_id,
                                Operation(
                                    e.path,
                                    PathParameters(DictGet(op_spec, "parameters", <<>>)),
                                    summary, description, e.method, spec2,
                                    _initalize_request_body(
                                        DictGet(op_spec, "requestBody", EmptyDict)),
                                    OperationResponse(op_spec["responses"],
                                                      ResponseCodes, ""),
                                    client_name))])

(***************************************************************************)
(* The service document the callers' client is loaded from: operations     *)
(* exercising each parameter location, style and request-body variant.     *)
(* A parameter's "type" is its schema.type.                                *)
(***************************************************************************)
ClientName == "svc"

AccountParam == [in |-> "path", name |-> "account_id", required |-> TRUE]

TokenParam == [in |-> "header", name |-> "x-tok", required |-> TRUE]

ItemSchema(required_props) ==
    IF required_props = {}
    THEN [type |-> "object",
          properties |-> [a |-> [type |-> "string"], b |-> [type |-> "string"]]]
    ELSE [type |-> "object",
          properties |-> [a |-> [type |-> "string"], b |-> [type |-> "string"]],
          required |-> required_props]

JsonItem(required_props) ==
    [content_type |-> "application/json", schema |-> ItemSchema(required_props)]

BinaryData ==
    [content_type |-> "text/plain",
     schema |-> [type |-> "string", format |-> "binary"]]

Responses ==
    DictSet(DictSet(EmptyDict, "200",
                    [content |-> <<[content_type |-> "application/json",
                                    schema |-> "Item"]>>]),
            "404", [description |-> "not found"])

AccountPath(tail) == <<[lit |-> "/v1/"], [ph |-> "account_id"], [lit |-> tail]>>

ServicePaths == <<
    [path |-> AccountPath("/items"), method |-> "get",
     op |-> [operationId |-> "get_item", summary |-> "Get an item",
             parameters |-> <<AccountParam, TokenParam,
                              [in |-> "query", name |-> "tags", type |-> "array"]>>,
             responses |-> Responses]],
    [path |-> <<[lit |-> "/v1/items"]>>, method |-> "get",
     op |-> [operationId |-> "list_items",
             parameters |-> <<[in |-> "query", name |-> "tags", type |-> "array",
                               style |-> "pipeDelimited", required |-> TRUE],
                              [in |-> "cookie", name |-> "sid"]>>,
             responses |-> Responses]],
    [path |-> AccountPath("/legacy"), method |-> "get",
     op |-> [operationId |-> "get_legacy", description |-> "Legacy",
             parameters |-> <<[in |-> "path", name |-> "account_id"]>>,
             responses |-> Responses]],
    [path |-> <<[lit |-> "/v1/find"]>>, method |-> "get",
     op |-> [operationId |-> "find_items",
             parameters |-> <<[in |-> "query", name |-> "flt", type |-> "object",
                               style |-> "deepObject"],
                              TokenParam>>,
             responses |-> Responses]],
    [path |-> <<[lit |-> "/v1/items"]>>, method |-> "post",
     op |-> [operationId |-> "create_item",
             parameters |-> <<TokenParam>>,
             requestBody |-> [required |-> TRUE,
                              content |-> <<JsonItem({"a", "b"})>>],
             responses |-> Responses]],
    [path |-> <<[lit |-> "/v1/upload"]>>, method |-> "post",
     op |-> [operationId |-> "upload",
             requestBody |-> [content |-> <<JsonItem({"a"}), BinaryData>>],
             responses |-> Responses]],
    [path |-> AccountPath("/upload"), method |-> "post",
     op |-> [operationId |-> "upload_to",
             parameters |-> <<[in |-> "header", name |-> "content-type"],
                              AccountParam>>,
             requestBody |-> [content |-> <<JsonItem({"a"}), BinaryData>>],
             responses |-> Responses]],
    [path |-> AccountPath("/items"), method |-> "patch",
     op |-> [operationId |-> "patch_item",
             parameters |-> <<AccountParam>>,
             requestBody |-> [required |-> TRUE, content |-> <<JsonItem({})>>],
             responses |-> Responses]],
    [path |-> <<[lit |-> "/v1/touch"]>>, method |-> "post",
     op |-> [operationId |-> "touch_item",
             requestBody |-> [content |-> <<JsonItem({})>>],
             responses |-> Responses]]
>>

\* The client's operations after Client.__init__ loaded the document
LoadedClient ==
    InitializeOperations(ClientName, 1,
        [paths |-> ServicePaths, operations |-> EmptyDict, exc |-> NoExc])

ClientOperations == LoadedClient.operations

(***************************************************************************)
(* The arguments callers pass                                              *)
(***************************************************************************)
ArgValues(name) ==
    CASE name = "account_id" -> {Str(a) : a \in Accounts}
      [] name = "x_tok" -> {Str("t")}
      [] name = "tags" -> {List(<<"a", "b">>)}
      [] name = "sid" -> {Str("s1")}
      [] name = "flt" -> {Dict(<<<<"k", "v">>>>)}
      [] name = "content_type" ->
            {Str("application/json"), Str("text/plain"), Str("bogus/type")}
      [] name = "a" -> {Str("1"), List(<<"x">>)}
      [] name = "b" -> {Str("2")}
      [] OTHER -> {Str("raw")}

\* The argument names an operation's signature offers
ArgNames(o) ==
    {o.params[i].name : i \in DOMAIN o.params}
    \cup (IF o.body.present
          THEN {CONTENT_TYPE_PYTHON_PARAM}
               \cup DOMAIN o.body.parameters
               \cup UNION {o.body.parameters[n][ct] :
                             n \in DOMAIN o.body.parameters,
                             ct \in DOMAIN o.body.content}
          ELSE {})

\* Every dict of keyword arguments over a set of names
RECURSIVE KwargsOver(_)
KwargsOver(names) ==
    IF names = {} THEN {EmptyDict}
    ELSE LET n == CHOOSE x \in names : TRUE
             rest == KwargsOver(names \ {n})
         IN  rest \cup {DictSet(kw, n, v) : kw \in rest, v \in ArgValues(n)}

\* The calls a caller may make: an operation of the client and its kwargs
CallsOf(o) ==
    {[op |-> o, kwargs |-> kw] : kw \in KwargsOver(ArgNames(ClientOperations[o]))}

Calls == UNION {CallsOf(o) : o \in DOMAIN ClientOperations}

\* What the session may answer to get_default
DefaultValue(name) ==
    CASE name = "x_tok" -> Str("dt")
      [] name = "account_id" -> Str("acct1")
      [] OTHER -> Str("text/plain")

SessionDefaults ==
    {[n \in D |-> DefaultValue(n)] : D \in SUBSET {"x_tok", "account_id", "content_type"}}

(***************************************************************************)
(* Operation.__call__ and the closure f of Operation._gen_call, as steps   *)
(* of a caller.  A caller's frame holds the locals of f.                   *)
(***************************************************************************)
Callers == 1 .. NumCallers

NoRequest == [method |-> "", url |-> "", kwargs |-> EmptyDict]

IdleFrame ==
    [pc |-> "idle", op |-> "", args |-> EmptyDict, kwargs |-> EmptyDict,
     path_params |-> EmptyDict, params |-> EmptyDict, headers |-> EmptyDict,
     cookies |-> EmptyDict, i |-> 0, exc |-> NoExc, request |-> NoRequest,
     closure |-> 0, url_at_call |-> ""]

OperationOf(t) == ClientOperations[frame[t].op]

NotCalling == <<q, ord, ld, sv>>

\* Operation._call of every operation: closure is 0 for None, else the
\* number of the closure stored; gens counts the runs of _gen_call
NoClosures == [o \in DOMAIN ClientOperations |-> [closure |-> 0, gens |-> 0]]

\* Every operation has been invoked before: its closure is built
BuiltClosures == [o \in DOMAIN ClientOperations |-> [closure |-> 1, gens |-> 1]]

\* client.<operation_id>(**kwargs): Operation.__call__ enters f(**kwargs)
Call(t, calls) ==
    /\ frame[t].pc = "idle"
    /\ \E c \in calls :
          frame' = [frame EXCEPT ![t] =
                       [IdleFrame EXCEPT
                          !.pc = IF op_call[c.op].closure = 0
                                 THEN "gen" ELSE "invoke",
                          !.op = c.op,
                          !.args = c.kwargs, !.kwargs = c.kwargs,
                          !.url_at_call = server_url]]
    /\ UNCHANGED <<server_url, session, op_call, NotCalling>>

\* __call__: self._call = self._gen_call()
GenCall(t) ==
    /\ frame[t].pc = "gen"
    /\ op_call' = [op_call EXCEPT ![frame[t].op] =
                      [closure |-> @.gens + 1, gens |-> @.gens + 1]]
    /\ frame' = [frame EXCEPT ![t].pc = "invoke"]
    /\ UNCHANGED <<server_url, session, NotCalling>>

\* __call__: self._call(*args, **kwargs) reads self._call and enters it
Invoke(t) ==
    /\ frame[t].pc = "invoke"
    /\ frame' = [frame EXCEPT ![t].pc = "f",
                              ![t].closure = op_call[frame[t].op].closure]
    /\ UNCHANGED <<server_url, session, op_call, NotCalling>>

\* f: account_id = kwargs.get('account_id'); if account_id: update_url
UpdateUrl(t) ==
    /\ frame[t].pc = "f"
    /\ LET account_id == DictGet(frame[t].kwargs, "account_id", PyNone)
       IN  server_url' = IF Truthy(account_id)
                         THEN update_url(account_id)
                         ELSE server_url
    /\ frame' = [frame EXCEPT ![t].pc = "params", ![t].i = 1]
    /\ UNCHANGED <<session, op_call, NotCalling>>

\* f: one turn of "for param in self._params: param.serialize(...)"
SerializeParam(t) ==
    /\ frame[t].pc = "params"
    /\ frame[t].i <= Len(OperationOf(t).params)
    /\ LET c == PathParameter_serialize(OperationOf(t).params[frame[t].i], frame[t])
       IN  frame' = [frame EXCEPT ![t] =
                        IF c.exc.cls # ""
                        THEN [c EXCEPT !.pc = "raised"]
                        ELSE [c EXCEPT !.i = @ + 1]]
    /\ UNCHANGED <<server_url, session, op_call, NotCalling>>

\* f: kwargs.setdefault("params", {}).update(params), and the same for
\* headers and cookies
MergeRequestParts(c) ==
    [c EXCEPT !.kwargs =
        DictSet(DictSet(DictSet(@, "params", Dict(c.params)),
                        "headers", Dict(c.headers)),
                "cookies", Dict(c.cookies))]

\* f: "if self._body: self._body.serialize(headers, kwargs)", then the
\* request parts are merged into kwargs
SerializeBody(t) ==
    /\ frame[t].pc = "params"
    /\ frame[t].i > Len(OperationOf(t).params)
    /\ LET c == IF OperationOf(t).body.present
                THEN RequestBody_serialize(OperationOf(t).body, frame[t])
                ELSE frame[t]
       IN  frame' = [frame EXCEPT ![t] =
                        IF c.exc.cls # ""
                        THEN [c EXCEPT !.pc = "raised"]
                        ELSE [MergeRequestParts(c) EXCEPT !.pc = "request"]]
    /\ UNCHANGED <<server_url, session, op_call, NotCalling>>

\* Operation.url(**path_params): self._server.url + self._path.format(...)
Operation_url(o, url, path_params) ==
    LET r == PathFormat(o.path, path_params)
    IN  [exc |-> r.exc, url |-> ServerUrl(url) \o r.url]

\* f: return self._session.request(self._method, self.url(**path_params),
\*                                 **kwargs)
Request(t) ==
    /\ frame[t].pc = "request"
    /\ LET r == Operation_url(OperationOf(t), server_url, frame[t].path_params)
       IN  frame' = [frame EXCEPT ![t] =
                        IF r.exc.cls # ""
                        THEN [@ EXCEPT !.pc = "raised", !.exc = r.exc]
                        ELSE [@ EXCEPT !.pc = "returned",
                                       !.request = [method |-> OperationOf(t).method,
                                                    url |-> r.url,
                                                    kwargs |-> frame[t].kwargs]]]
    /\ UNCHANGED <<server_url, session, op_call, NotCalling>>

\* The exception classes "except AlmdrlibValueError" catches
Caught(cls) == cls = "AlmdrlibValueError"

\* Operation.__call__: except AlmdrlibValueError as e:
\*     raise AlmdrlibValueError(f'{self} failed {e}')
\* Any other exception leaves __call__ as it was raised.
Except(t) ==
    /\ frame[t].pc = "raised"
    /\ frame' = [frame EXCEPT ![t].pc = "failed",
                              ![t].exc =
                                 IF Caught(@.cls)
                                 THEN [cls |-> "AlmdrlibValueError",
                                       msg |-> "failed",
                                       names |-> @.names,
                                       op |-> Operation_repr(OperationOf(t)),
                                       cause |-> @.msg]
                                 ELSE @]
    /\ UNCHANGED <<server_url, session, op_call, NotCalling>>

\* The caller has the response or the exception and may call again
Return(t) ==
    /\ frame[t].pc \in {"returned", "failed"}
    /\ frame' = [frame EXCEPT ![t] = IdleFrame]
    /\ UNCHANGED <<server_url, session, op_call, NotCalling>>

\* The parts of the state a specification does not use
IdleQuery == [pc |-> "off"]

IdleOrder == [pc |-> "off"]

IdleLoad == [pc |-> "off"]

IdleServer == [pc |-> "off"]

(***************************************************************************)
(* Spec: one caller, every call of Calls, every session default, on a      *)
(* client whose operations have each been invoked before (their closures   *)
(* are built; the first invocations are in SpecConc)                       *)
(***************************************************************************)
Init ==
    /\ server_url = InitialServerUrl
    /\ session \in {[defaults |-> d] : d \in SessionDefaults}
    /\ frame = [t \in Callers |-> IdleFrame]
    /\ q = IdleQuery
    /\ ord = IdleOrder
    /\ ld = IdleLoad
    /\ op_call = BuiltClosures
    /\ sv = IdleServer

Next ==
    \/ Call(1, Calls)
    \/ Invoke(1)
    \/ UpdateUrl(1)
    \/ SerializeParam(1)
    \/ SerializeBody(1)
    \/ Request(1)
    \/ Except(1)
    \/ Return(1)

Spec == Init /\ [][Next]_vars

(***************************************************************************)
(* Claims checked under Spec                                               *)
(***************************************************************************)
\* The parameter of o with the smallest index in S (S nonempty)
FirstOf(S) == CHOOSE i \in S : \A j \in S : i <= j

\* Indexes of the parameters declared required that the call does not
\* supply and the session has no default for
MissingRequired(o, args) ==
    {i \in DOMAIN o.params :
        /\ o.params[i].declared_required
        /\ o.params[i].name \notin DOMAIN args
        /\ IsNone(get_default(o.params[i].name))}

\* Indexes of the query parameters of an unsupported style that have a value
\* to serialize
BadStyle(o, args) ==
    {i \in DOMAIN o.params :
        /\ o.params[i].loc = "query"
        /\ o.params[i].style \notin {"form", "spaceDelimited", "pipeDelimited"}
        /\ \/ o.params[i].name \in DOMAIN args
           \/ ~IsNone(get_default(o.params[i].name))}

\* C2: a call that leaves out a parameter declared required, for which the
\* session has no default, never gets past parameter serialization: no
\* request is built or dispatched, and the call ends with a ValueError.  The
\* error names the parameter: "'<name>' is required" for the first declared
\* parameter that fails (a call raises one exception; it is the omitted
\* parameter's unless a parameter declared before it has already raised).
C2_MissingRequiredRejected ==
    LET f == frame[1]
        o == ClientOperations[f.op]
        M == MissingRequired(o, f.args)
        failing == M \cup BadStyle(o, f.args)
    IN  (f.pc \notin {"idle", "gen", "invoke", "f"} /\ M # {}) =>
            /\ f.pc \in {"params", "raised", "failed"}
            /\ f.request = NoRequest
            /\ f.pc = "params" => f.i <= FirstOf(failing)
            /\ f.pc \in {"raised", "failed"} =>
                  /\ f.exc.cls = "ValueError"
                  /\ f.exc.names = {o.params[FirstOf(failing)].name}
                  /\ FirstOf(failing) \in M => f.exc.msg = "is required"
                  /\ \A i \in M : i = FirstOf(failing) =>
                        /\ f.exc.msg = "is required"
                        /\ o.params[i].name \in f.exc.names

\* C2 witness: a call without a required header and without a default for it
\* has failed, naming it, with nothing dispatched
C2_Witness ==
    /\ frame[1].pc = "failed"
    /\ frame[1].op = "get_item"
    /\ "x_tok" \notin DOMAIN frame[1].args
    /\ "account_id" \in DOMAIN frame[1].args
    /\ IsNone(get_default("x_tok"))
    /\ frame[1].exc.msg = "is required"
    /\ frame[1].exc.names = {"x_tok"}
    /\ frame[1].request = NoRequest

\* The content type the selection order of the claim picks from what the
\* body serialization is given: "" when none of the three tiers has one
NegotiatedContentType(body, kwargs, headers) ==
    IF "content_type" \in DOMAIN kwargs THEN kwargs["content_type"].v
    ELSE IF "content-type" \in DOMAIN headers THEN headers["content-type"].v
    ELSE IF Cardinality(DOMAIN body.content) = 1
         THEN CHOOSE ct \in DOMAIN body.content : TRUE
    ELSE ""

\* The type of the payload a body variant produces
PayloadType(bp) == IF bp.kind = "simple" THEN "bytes" ELSE "json"

\* The caller is about to serialize the request body of its operation
AtBody(f) ==
    /\ f.pc = "params"
    /\ f.i > Len(ClientOperations[f.op].params)
    /\ ClientOperations[f.op].body.present

C3_Step ==
    LET f == frame[1]
        g == frame'[1]
    IN  AtBody(f) =>
            LET body == ClientOperations[f.op].body
                ct == NegotiatedContentType(body, f.kwargs, f.headers)
            IN  /\ ct = "" =>
                      /\ g.pc = "raised"
                      /\ g.exc.cls = "AlmdrlibValueError"
                      /\ g.exc.msg = "content_type is required"
                /\ ct # "" => g.exc.msg # "content_type is required"
                /\ ct \in DOMAIN body.content =>
                      /\ ~(g.exc.cls = "KeyError" /\ g.exc.names = {ct})
                      /\ g.pc = "request" =>
                            /\ g.kwargs["headers"].v["content-type"].v = ct
                            /\ g.kwargs["data"].ty = PayloadType(body.content[ct])

C3_Explicit ==
    LET f == frame[1]
        body == ClientOperations[f.op].body
    IN  (f.pc \in {"request", "raised", "failed", "returned"}
         /\ body.present
         /\ "content_type" \in DOMAIN f.args
         /\ f.args["content_type"].v \in DOMAIN body.content) =>
            /\ f.exc.msg # "content_type is required"
            /\ f.exc.cause # "content_type is required"
            /\ f.exc.cls # "KeyError"
            /\ f.pc = "returned" =>
                  f.request.kwargs["headers"].v["content-type"] = f.args["content_type"]

\* C3: when the body of an operation is serialized, the content type is the
\* explicit content_type argument, else the Content-Type already among the
\* headers built from the caller's arguments, else the body's only declared
\* content type, else the call fails with "content_type is required" (so it
\* does with two declared content types and none of the three).  A declared
\* content type so chosen selects the body variant that produces the payload
\* and is the Content-Type header of the request; a call given a declared
\* content_type explicitly does not fail the negotiation and is dispatched
\* with that Content-Type.
C3_ContentTypeOrder == []C3_Explicit /\ [][C3_Step]_vars

\* C3 witness: with two declared content types, the explicit content_type
\* text/plain was dispatched as the Content-Type with the bytes payload
C3_Witness ==
    /\ frame[1].pc = "returned"
    /\ frame[1].op = "upload"
    /\ "content_type" \in DOMAIN frame[1].args
    /\ frame[1].args["content_type"].v = "text/plain"
    /\ frame[1].request.kwargs["headers"].v["content-type"].v = "text/plain"
    /\ frame[1].request.kwargs["data"].ty = "bytes"

C4_Step ==
    LET f == frame[1]
        g == frame'[1]
    IN  AtBody(f) =>
            LET body == ClientOperations[f.op].body
                ct == NegotiatedContentType(body, f.kwargs, f.headers)
            IN  (ct \in DOMAIN body.content /\ body.content[ct].kind = "object") =>
                    LET schema_required ==
                            DictGet(body.content[ct].schema, "required", {})
                        supplied == DOMAIN f.kwargs \ {"content_type"}
                        missing == schema_required \ supplied
                    IN  /\ missing # {} =>
                              /\ g.pc = "raised"
                              /\ g.exc.cls = "AlmdrlibValueError"
                              /\ g.exc.msg = "parameters are required"
                              /\ missing \subseteq g.exc.names
                              /\ "data" \in DOMAIN g.kwargs =>
                                    /\ "data" \in DOMAIN f.kwargs
                                    /\ g.kwargs["data"] = f.kwargs["data"]
                              /\ g.request = NoRequest
                        /\ missing = {} => g.exc.msg # "parameters are required"

C4_Final ==
    LET f == frame[1]
    IN  (f.exc.msg = "parameters are required"
         \/ f.exc.cause = "parameters are required") => f.request = NoRequest

\* C4: when an object-variant body is serialized and the arguments lack a
\* property the schema requires, the call raises a validation error
\* ("parameters are required") whose message lists the required properties,
\* the missing ones among them, with no payload produced and nothing
\* dispatched; when every schema-required property is supplied, that check
\* does not fail.
C4_RequiredProperties == []C4_Final /\ [][C4_Step]_vars

\* C4 witness: create_item, whose schema requires a and b, was called with a
\* only and failed listing b
C4_Witness ==
    /\ frame[1].pc = "failed"
    /\ frame[1].op = "create_item"
    /\ "a" \in DOMAIN frame[1].args
    /\ "b" \notin DOMAIN frame[1].args
    /\ frame[1].exc.cause = "parameters are required"
    /\ "b" \in frame[1].exc.names
    /\ frame[1].request = NoRequest

\* C9 (as claimed): every exception that reaches the caller of an operation
\* carries the operation's identity (client name, operation id, method, path)
C9_ErrorsWrapped ==
    frame[1].pc = "failed" =>
        frame[1].exc.op = Operation_repr(ClientOperations[frame[1].op])

\* Indexes of the path parameters the call does not supply and the session
\* has no default for
MissingPath(o, args) ==
    {i \in DOMAIN o.params :
        /\ o.params[i].loc = "path"
        /\ o.params[i].name \notin DOMAIN args
        /\ IsNone(get_default(o.params[i].name))}

\* C10 (as claimed): a path parameter is required whatever its declared flag:
\* its required property is true, and a call that omits it, with no default,
\* is rejected by parameter serialization as a missing required parameter
C10_PathAlwaysRequired ==
    LET f == frame[1]
        o == ClientOperations[f.op]
    IN  /\ \A id \in DOMAIN ClientOperations :
              \A i \in DOMAIN ClientOperations[id].params :
                 ClientOperations[id].params[i].loc = "path" =>
                     required(ClientOperations[id].params[i])
        /\ (f.pc \notin {"idle", "gen", "invoke", "f"} /\ MissingPath(o, f.args) # {}) =>
              /\ f.pc \in {"params", "raised", "failed"}
              /\ f.pc \in {"raised", "failed"} => f.exc.msg = "is required"

(***************************************************************************)
(* SpecConc: NumCallers callers whose calls interleave, on operations of   *)
(* the one client, which all hold the same Server                          *)
(***************************************************************************)
ConcCalls ==
    {c \in Calls : c.op \in {"get_legacy", "list_items"} /\ "sid" \notin DOMAIN c.kwargs}

InitConc ==
    /\ server_url = InitialServerUrl
    /\ session = [defaults |-> EmptyDict]
    /\ frame = [t \in Callers |-> IdleFrame]
    /\ q = IdleQuery
    /\ ord = IdleOrder
    /\ ld = IdleLoad
    /\ op_call = NoClosures
    /\ sv = IdleServer

NextConc ==
    \E t \in Callers :
        \/ Call(t, ConcCalls)
        \/ GenCall(t)
        \/ Invoke(t)
        \/ UpdateUrl(t)
        \/ SerializeParam(t)
        \/ SerializeBody(t)
        \/ Request(t)
        \/ Except(t)
        \/ Return(t)

SpecConc == InitConc /\ [][NextConc]_vars

\* C1 (as claimed): a call that supplies account_id dispatches its request to
\* the base URL resolved for its own account_id, whatever other calls do
C1_UrlPerCall ==
    \A t \in Callers :
        (frame[t].pc = "returned" /\ "account_id" \in DOMAIN frame[t].args) =>
            frame[t].request.url =
                Operation_url(ClientOperations[frame[t].op],
                              get_url(ServiceName, frame[t].args["account_id"]),
                              frame[t].path_params).url

(***************************************************************************)
(* SpecQuery: PathParameter.serialize_query_parameter on drawn inputs      *)
(***************************************************************************)
\* Sequences over S of length at most n
RECURSIVE SeqsUpTo(_, _)
SeqsUpTo(S, n) ==
    IF n = 0 THEN {<<>>}
    ELSE SeqsUpTo(S, n - 1)
         \cup {Append(s, x) : s \in {t \in SeqsUpTo(S, n - 1) : Len(t) = n - 1}, x \in S}

QueryValues(datatype) ==
    CASE datatype = "array" -> {List(s) : s \in SeqsUpTo({"a", "b"}, MaxArrayLen)}
      [] datatype = "boolean" -> {Bool(TRUE), Bool(FALSE)}
      [] datatype = "object" ->
            {Dict(<<<<"k", "v">>>>), Dict(<<<<"k", "v">>, <<"m", "n">>>>)}
      [] OTHER -> {Str("x")}

QueryInputsOf(datatype) ==
    {[style |-> st, explode |-> ex, name |-> "tags", datatype |-> datatype, value |-> v] :
        st \in {"form", "spaceDelimited", "pipeDelimited", "deepObject"},
        ex \in BOOLEAN,
        v \in QueryValues(datatype)}

QueryInputs ==
    UNION {QueryInputsOf(dt) : dt \in {"array", "boolean", "object", "string"}}

InitQuery ==
    /\ server_url = InitialServerUrl
    /\ session = [defaults |-> EmptyDict]
    /\ frame = [t \in Callers |-> IdleFrame]
    /\ q \in {[pc |-> "drawn", input |-> x] : x \in QueryInputs}
    /\ ord = IdleOrder
    /\ ld = IdleLoad
    /\ op_call = NoClosures
    /\ sv = IdleServer

\* new_query_params = self.serialize_query_parameter(style, explode, name,
\*                                                   datatype, raw_value)
SerializeQuery ==
    /\ q.pc = "drawn"
    /\ q' = [pc |-> "done", input |-> q.input,
             out |-> serialize_query_parameter(
                         q.input.style, q.input.explode, q.input.name,
                         q.input.datatype, q.input.value)]
    /\ UNCHANGED <<server_url, session, frame, ord, ld, op_call, sv>>

NextQuery == SerializeQuery

SpecQuery == InitQuery /\ [][NextQuery]_vars

\* The elements of seq with sep between each two neighbours
RECURSIVE Interleaved(_, _)
Interleaved(seq, sep) ==
    IF Len(seq) = 0 THEN ""
    ELSE IF Len(seq) = 1 THEN seq[1]
    ELSE Interleaved(SubSeq(seq, 1, Len(seq) - 1), sep) \o sep \o seq[Len(seq)]

\* C8: a query parameter of array type with a supported style serializes,
\* with explode false, to one string under the parameter's name: the
\* elements joined by "," (form), " " (spaceDelimited) or "|" (pipeDelimited);
\* with explode true the sequence itself is passed on under the name.
C8_QueryArray ==
    (/\ q.pc = "done"
     /\ q.input.datatype = "array"
     /\ q.input.style \in {"form", "spaceDelimited", "pipeDelimited"}) =>
        /\ q.out.exc.cls = ""
        /\ DOMAIN q.out.result = {q.input.name}
        /\ q.input.explode => q.out.result[q.input.name] = q.input.value
        /\ ~q.input.explode =>
              q.out.result[q.input.name] =
                  Str(Interleaved(q.input.value.v,
                                  CASE q.input.style = "form" -> ","
                                    [] q.input.style = "spaceDelimited" -> " "
                                    [] q.input.style = "pipeDelimited" -> "|"))

\* C8 witness: ["a", "b"] with style pipeDelimited and explode false became
\* {"tags": "a|b"}
C8_Witness ==
    /\ q.pc = "done"
    /\ q.input.datatype = "array"
    /\ q.input.style = "pipeDelimited"
    /\ ~q.input.explode
    /\ q.input.value.v = <<"a", "b">>
    /\ q.out.result["tags"].v = "a|b"

(***************************************************************************)
(* SpecLoad: Client.__init__ on drawn spec documents.  The caller holds a  *)
(* client only when the constructor returned; it reaches operations        *)
(* through the client it holds (Client.__getattr__).                       *)
(***************************************************************************)
\* The operationId a drawn document gives an operation ("" = none given)
OperationIds == {"", "opA", "opB"}

DocPath(i) == <<[lit |-> "/p" \o ToString(i)]>>

\* The i-th (path, method) entry of a document's paths: its operation spec
\* with or without an operationId and with or without responses; every
\* other operation that declares responses declares a request body too
DocEntry(i, operation_id, has_responses) ==
    LET s0 == [summary |-> "an operation"]
        s1 == IF operation_id = "" THEN s0
              ELSE DictSet(s0, "operationId", operation_id)
        s2 == IF has_responses THEN DictSet(s1, "responses", Responses) ELSE s1
    IN  [path |-> DocPath(i), method |-> "get",
         op |-> IF has_responses /\ i % 2 = 1
                THEN DictSet(s2, "requestBody", [content |-> <<JsonItem({})>>])
                ELSE s2]

DocPaths ==
    UNION {{[i \in 1 .. n |-> DocEntry(i, f[i][1], f[i][2])] :
              f \in [1 .. n -> OperationIds \X BOOLEAN]} : n \in 0 .. MaxDocOps}

\* The servers a document may declare (when it has the key): a fixed URL,
\* or a fixed URL and a session endpoint
\* (a URL is a template: its literal parts and its {variable} parts)
FixedServer == [url |-> <<[lit |-> "https://fixed"]>>]

SessionServer ==
    DictSet([url |-> <<[lit |-> "https://global"]>>],
            "x-alertlogic-session-endpoint", TRUE)

DocServers == {<<FixedServer>>, <<FixedServer, SessionServer>>}

\* The top-level keys of a drawn document: all of them, or one missing
DocKeySets ==
    {{"openapi", "info", "paths", "servers"} \ D :
        D \in {{}, {"openapi"}, {"info"}, {"paths"}, {"servers"}}}

Document(keys, paths, servers) ==
    [k \in keys |->
        CASE k = "openapi" -> "3.0.2"
          [] k = "info" -> [title |-> ClientName]
          [] k = "paths" -> paths
          [] k = "servers" -> servers]

Documents ==
    {Document(keys, paths, servers) :
        keys \in DocKeySets, paths \in DocPaths, servers \in DocServers}

\* session=None: the client is built without a session
HasSession(sess) == sess # PyNone

\* bool(variables): None and {} are false
HasVariables(variables) == variables # PyNone /\ DOMAIN variables # {}

\* Server.__init__: the Server's state
Server(spec, sess, variables) ==
    [spec |-> spec,
     url |-> IF DictGet(spec, "x-alertlogic-session-endpoint", FALSE)
                /\ HasSession(sess)
             THEN <<[lit |-> update_url(PyNone)]>>
             ELSE spec.url,
     variables |-> IF HasVariables(variables) THEN variables
                   ELSE IF "variables" \in DOMAIN spec
                   THEN [k \in DOMAIN spec.variables |->
                            DictGet(spec.variables[k], "default", PyNone)]
                   ELSE variables]

\* The text of a URL template
TemplateText(parts) ==
    Join("", [i \in DOMAIN parts |->
                 IF "ph" \in DOMAIN parts[i]
                 THEN "{" \o parts[i].ph \o "}"
                 ELSE parts[i].lit])

\* Server.url (property): [exc, url]
Server_url(server) ==
    IF HasVariables(server.variables)
    THEN PathFormat(server.url, server.variables)
    ELSE [exc |-> NoExc, url |-> TemplateText(server.url)]

\* session.validate_server(spec): the session's answer
validate_server(sess, spec) == spec.url \in sess.valid

NoServer == [spec |-> EmptyDict, url |-> <<>>, variables |-> PyNone]

\* A Client object before load_spec ran
NewClient ==
    [operations |-> EmptyDict, paths |-> <<>>, server |-> NoServer]

\* Client.load_spec (variables=None) followed by the
\* _initialize_operations it ends with: the exception raised (if any) and
\* the state of the Client object
load_spec(client_name, spec, sess) ==
    IF ~({"openapi", "info", "paths"} \subseteq DOMAIN spec)
    THEN [exc |-> Exc("ValueError", "Invalid OpenAPI document", {}),
          client |-> NewClient]
    ELSE LET specs == DictGet(spec, "servers", <<>>)
             servers == [i \in DOMAIN specs |-> Server(specs[i], sess, PyNone)]
             validated == IF HasSession(sess)
                          THEN SelectSeq(servers,
                                   LAMBDA s : validate_server(sess, s.spec))
                          ELSE servers
         IN  IF Len(servers) > 0 /\ Len(validated) = 0
             THEN [exc |-> Exc("IndexError", "list index out of range", {}),
                   client |-> [NewClient EXCEPT !.paths = spec.paths]]
             ELSE LET r == InitializeOperations(
                               client_name, 1,
                               [paths |-> spec.paths,
                                operations |-> EmptyDict,
                                exc |-> NoExc])
                  IN  [exc |-> r.exc,
                       client |-> [operations |-> r.operations,
                                   paths |-> r.paths,
                                   server |-> IF Len(servers) > 0
                                              THEN validated[1]
                                              ELSE NoServer]]

NoAttr == [name |-> "", found |-> FALSE, exc |-> NoExc]

\* The caller's document object after load_spec(spec, ...): spec.copy() is
\* a shallow copy, so self.paths is the caller's paths object and what
\* _initialize_operations pops is gone from the caller's document
SourceAfter(spec, client) ==
    IF {"openapi", "info", "paths"} \subseteq DOMAIN spec /\ Len(client.paths) > 0
    THEN [spec EXCEPT !["paths"] = client.paths]
    ELSE spec

\* No second load has been made
NoSecond == [done |-> FALSE, exc |-> NoExc, operations |-> EmptyDict]

\* What the session answers to validate_server
ValidServers == SUBSET {FixedServer.url, SessionServer.url}

InitLoad ==
    /\ server_url = InitialServerUrl
    /\ session \in {[defaults |-> EmptyDict, valid |-> v] : v \in ValidServers}
                    \cup {PyNone}
    /\ frame = [t \in Callers |-> IdleFrame]
    /\ q = IdleQuery
    /\ ord = IdleOrder
    /\ ld \in {[pc |-> "new", doc |-> d, source |-> d, client |-> NewClient,
                ref |-> "none", exc |-> NoExc, attr |-> NoAttr,
                second |-> NoSecond, was_set |-> FALSE, set_exc |-> NoExc] :
                  d \in Documents}
    /\ op_call = NoClosures
    /\ sv = IdleServer

\* client = Client(name, session=session): __init__ runs load_spec; when it
\* raises, the caller's name is never bound to the object
Construct ==
    /\ ld.pc = "new"
    /\ LET r == load_spec(ClientName, ld.doc, session)
       IN  /\ ld' = [ld EXCEPT
                       !.pc = IF r.exc = NoExc THEN "constructed" ELSE "failed",
                       !.client = r.client,
                       !.source = SourceAfter(ld.doc, r.client),
                       !.ref = IF r.exc = NoExc THEN "client" ELSE "none",
                       !.exc = r.exc]
           /\ server_url' = IF r.exc = NoExc /\ r.client.server # NoServer
                            THEN Server_url(r.client.server).url
                            ELSE server_url
    /\ UNCHANGED <<session, frame, q, ord, op_call, sv>>

\* client.<op_name>: Client.__getattr__ on the client the caller holds
GetAttr ==
    /\ ld.pc = "constructed"
    /\ ld.ref = "client"
    /\ \E op_name \in OperationIds \ {""} :
          ld' = [ld EXCEPT
                   !.attr = IF op_name \in DOMAIN ld.client.operations
                            THEN [name |-> op_name, found |-> TRUE,
                                  exc |-> NoExc]
                            ELSE [name |-> op_name, found |-> FALSE,
                                  exc |-> Exc("AttributeError", "no attribute",
                                              {op_name})]]
    /\ UNCHANGED <<server_url, session, frame, q, ord, op_call, sv>>

\* The same document object is loaded a second time, into another client:
\* Client.load_spec on the document as the first load left it
LoadAgain ==
    /\ ld.pc = "constructed"
    /\ ~ld.second.done
    /\ LET r == load_spec(ClientName, ld.source, session)
       IN  ld' = [ld EXCEPT
                    !.second = [done |-> TRUE, exc |-> r.exc,
                                operations |-> r.client.operations],
                    !.source = SourceAfter(ld.source, r.client)]
    /\ UNCHANGED <<server_url, session, frame, q, ord, op_call, sv>>

\* client.set_server(s): self._server = s; self._initialize_operations()
\* runs again over self.paths as the load left them
SetServer ==
    /\ ld.pc = "constructed"
    /\ ld.ref = "client"
    /\ \E sp \in {FixedServer, SessionServer} :
          LET s == Server(sp, session, PyNone)
              r == InitializeOperations(
                       ClientName, 1,
                       [paths |-> ld.client.paths,
                        operations |-> EmptyDict,
                        exc |-> NoExc])
          IN  /\ ld' = [ld EXCEPT
                           !.client = [operations |-> r.operations,
                                       paths |-> r.paths,
                                       server |-> s],
                           !.source = SourceAfter(ld.source,
                                                  [ld.client EXCEPT !.paths = r.paths]),
                           !.was_set = TRUE,
                           !.set_exc = r.exc]
              /\ server_url' = Server_url(s).url
    /\ UNCHANGED <<session, frame, q, ord, op_call, sv>>

NextLoad ==
    \/ Construct
    \/ GetAttr
    \/ LoadAgain
    \/ SetServer

SpecLoad == InitLoad /\ [][NextLoad]_vars

\* The operationId of the i-th entry ("" when it has none)
IdOf(paths, i) == DictGet(paths[i].op, "operationId", "")

\* The entries that repeat the operationId of an earlier entry
Repeats(paths) ==
    {j \in DOMAIN paths :
        /\ IdOf(paths, j) # ""
        /\ \E i \in 1 .. (j - 1) : IdOf(paths, i) = IdOf(paths, j)}

\* The document is loadable up to its first repeated operationId: its
\* required keys are there, a server validates, and the operations before
\* the repeat declare responses
LoadableUpTo(doc, sess, j) ==
    /\ {"openapi", "info", "paths"} \subseteq DOMAIN doc
    /\ \/ Len(DictGet(doc, "servers", <<>>)) = 0
       \/ ~HasSession(sess)
       \/ \E i \in DOMAIN doc.servers : validate_server(sess, doc.servers[i])
    /\ \A i \in 1 .. (j - 1) :
          IdOf(doc.paths, i) # "" => "responses" \in DOMAIN doc.paths[i].op

\* C5: when two (path, method) operations of the loaded document carry the
\* same operationId, construction fails: the caller holds no client and has
\* reached no operation of it; and when the load gets as far as the repeated
\* operationId, the error is the AlmdrlibValueError that names it.
C5_DuplicateAborts ==
    (/\ ld.pc \in {"constructed", "failed"}
     /\ "paths" \in DOMAIN ld.doc
     /\ Repeats(ld.doc.paths) # {}) =>
        /\ ld.pc = "failed"
        /\ ld.ref = "none"
        /\ ld.attr = NoAttr
        /\ ld.exc # NoExc
        /\ LET j == FirstOf(Repeats(ld.doc.paths))
           IN  LoadableUpTo(ld.doc, session, j) =>
                  /\ ld.exc.cls = "AlmdrlibValueError"
                  /\ ld.exc.msg = "duplication"
                  /\ ld.exc.names = {IdOf(ld.doc.paths, j)}

\* C5 witness: a document whose first and last operations are both "opA",
\* with another operation built in between, failed with the duplication
\* error after operations had been created
C5_Witness ==
    /\ ld.pc = "failed"
    /\ ld.ref = "none"
    /\ "paths" \in DOMAIN ld.doc
    /\ Len(ld.doc.paths) = MaxDocOps
    /\ IdOf(ld.doc.paths, 1) = "opA"
    /\ IdOf(ld.doc.paths, MaxDocOps) = "opA"
    /\ Repeats(ld.doc.paths) = {MaxDocOps}
    /\ ld.exc.cls = "AlmdrlibValueError"
    /\ ld.exc.names = {"opA"}
    /\ DOMAIN ld.client.operations # {}

(***************************************************************************)
(* SpecOrder: PathParameter.__lt__, sorted() and                           *)
(* Operation._make_signature on drawn parameter lists.                     *)
(***************************************************************************)
\* The names of the drawn parameters, listed in the order of str.__lt__
ParamNames == <<"H", "P", "Q", "content_type">>

\* The names drawn for a parameter in any location
DrawnNames == {"H", "P", "Q"}

NameRank(name) == CHOOSE i \in DOMAIN ParamNames : ParamNames[i] = name

\* self.name < other.name
StrLt(a, b) == NameRank(a) < NameRank(b)

location_ranks == [path |-> 0, query |-> 1, header |-> 2, cookie |-> 3]

\* PathParameter.__lt__(self, other), both PathParameters: each test that
\* does not return True falls through to the next one
lt(self, other) ==
    IF required(self) /\ ~required(other) THEN TRUE
    ELSE IF IsNone(default(self)) /\ ~IsNone(default(other)) THEN TRUE
    ELSE IF location_ranks[self.loc] < location_ranks[other.loc] THEN TRUE
    ELSE StrLt(self.name, other.name)

\* sorted(a) as CPython's list.sort runs it on a short list: the run the
\* list starts with is counted (a strictly descending run is reversed), and
\* the remaining elements are inserted by binary search, all with __lt__.
RECURSIVE count_run(_, _, _)
count_run(a, n, descending) ==
    IF n < Len(a) /\ (lt(a[n + 1], a[n]) = descending)
    THEN count_run(a, n + 1, descending)
    ELSE n

\* The position binarysort inserts pivot at, searching a[l .. r-1]
RECURSIVE BinarySearch(_, _, _, _)
BinarySearch(a, pivot, l, r) ==
    LET p == l + ((r - l) \div 2)
        l2 == IF lt(pivot, a[p]) THEN l ELSE p + 1
        r2 == IF lt(pivot, a[p]) THEN p ELSE r
    IN  IF l2 < r2 THEN BinarySearch(a, pivot, l2, r2) ELSE l2

RECURSIVE binarysort(_, _)
binarysort(a, start) ==
    IF start > Len(a) THEN a
    ELSE LET l == BinarySearch(a, a[start], 1, start)
         IN  binarysort([i \in DOMAIN a |->
                            IF i < l \/ i > start THEN a[i]
                            ELSE IF i = l THEN a[start]
                            ELSE a[i - 1]],
                        start + 1)

sorted(a) ==
    IF Len(a) < 2 THEN a
    ELSE LET descending == lt(a[2], a[1])
             n == count_run(a, 2, descending)
         IN  binarysort([i \in DOMAIN a |->
                            IF descending /\ i <= n THEN a[n + 1 - i] ELSE a[i]],
                        n + 1)

\* inspect.Parameter.empty
Empty == [ty |-> "empty", v |-> ""]

\* PathParameter.to_inspect_parameter: the name and the default
to_inspect_parameter(p) ==
    [name |-> p.name,
     default |-> IF Truthy(default(p)) THEN default(p) ELSE Empty]

\* The keys of body.parameters in a sequence (the bodies of the model
\* declare one parameter name)
RECURSIVE Keys(_)
Keys(names) ==
    IF names = {} THEN <<>>
    ELSE LET n == CHOOSE x \in names : TRUE
         IN  <<n>> \o Keys(names \ {n})

\* Operation._make_signature: the parameters of the signature, in order
_make_signature(params_, body) ==
    LET s == sorted(params_)
        required_s == SelectSeq(s, required)
        non_required_s == SelectSeq(s, LAMBDA p : ~required(p))
        required_params ==
            [i \in DOMAIN required_s |-> to_inspect_parameter(required_s[i])]
        non_required_params ==
            [i \in DOMAIN non_required_s |->
                to_inspect_parameter(non_required_s[i])]
        ct_present == \E i \in DOMAIN params_ :
                          params_[i].name = CONTENT_TYPE_PYTHON_PARAM
        names == Keys(DOMAIN body.parameters)
        body_params ==
            IF ~body.present THEN <<>>
            ELSE (IF ct_present THEN <<>>
                  ELSE <<[name |-> CONTENT_TYPE_PYTHON_PARAM,
                          default |-> IF default_content_type(body) # ""
                                      THEN Str(default_content_type(body))
                                      ELSE Empty]>>)
                 \o [i \in DOMAIN names |-> [name |-> names[i], default |-> Empty]]
    IN  required_params \o body_params \o non_required_params

\* The parameter lists an operation may declare: up to MaxSigParams
\* parameters of distinct names, each in any location, required or not
DeclaredLists ==
    UNION {{[i \in 1 .. n |->
               PathParameter([in |-> f[i][1], name |-> g[i], required |-> f[i][2]])] :
              f \in [1 .. n -> Locations \X BOOLEAN],
              g \in {h \in [1 .. n -> DrawnNames] :
                        \A i, j \in 1 .. n : i # j => h[i] # h[j]}} :
           n \in 1 .. MaxSigParams}

\* The parameter lists that declare a content-type header, alone or next
\* to one other parameter
ContentTypeLists ==
    LET ct == {PathParameter([in |-> "header", name |-> CONTENT_TYPE_PARAM,
                              required |-> r]) : r \in BOOLEAN}
        others == {PathParameter([in |-> l, name |-> "P", required |-> r]) :
                      l \in Locations, r \in BOOLEAN}
    IN  {<<c>> : c \in ct}
        \cup {<<c, x>> : c \in ct, x \in others}
        \cup {<<x, c>> : c \in ct, x \in others}

\* The request bodies of the drawn operations: none, one with a single
\* content type, or one with two content types
SignatureBodies ==
    {NoBody, ClientOperations["create_item"].body, ClientOperations["upload"].body}

\* The session's defaults for the drawn parameters
OrderDefaults ==
    {[n \in D |-> Str("dflt")] : D \in SUBSET DrawnNames}

InitOrder ==
    /\ server_url = InitialServerUrl
    /\ session \in {[defaults |-> d] : d \in OrderDefaults}
    /\ frame = [t \in Callers |-> IdleFrame]
    /\ q = IdleQuery
    /\ ord \in {[pc |-> "drawn", params |-> ps, body |-> b,
                 compared |-> FALSE, less |-> <<>>,
                 signed |-> FALSE, signature |-> <<>>] :
                   ps \in DeclaredLists \cup ContentTypeLists,
                   b \in SignatureBodies}
    /\ ld = IdleLoad
    /\ op_call = NoClosures
    /\ sv = IdleServer

\* a < b for every two of the declared parameters
Less ==
    /\ ord.pc = "drawn"
    /\ ~ord.compared
    /\ ord' = [ord EXCEPT
                 !.compared = TRUE,
                 !.less = [i \in DOMAIN ord.params |->
                              [j \in DOMAIN ord.params |->
                                  lt(ord.params[i], ord.params[j])]]]
    /\ UNCHANGED <<server_url, session, frame, q, ld, op_call, sv>>

\* Operation.__signature__: self._signature = self._make_signature()
MakeSignature ==
    /\ ord.pc = "drawn"
    /\ ~ord.signed
    /\ ord' = [ord EXCEPT
                 !.signed = TRUE,
                 !.signature = _make_signature(ord.params, ord.body)]
    /\ UNCHANGED <<server_url, session, frame, q, ld, op_call, sv>>

NextOrder ==
    \/ Less
    \/ MakeSignature

SpecOrder == InitOrder /\ [][NextOrder]_vars

\* The sort key the documented order compares: required before optional,
\* default absent before default present, location rank, name
SortKey(p) ==
    <<IF required(p) THEN 0 ELSE 1,
      IF IsNone(default(p)) THEN 0 ELSE 1,
      location_ranks[p.loc],
      NameRank(p.name)>>

LexLess(a, b) ==
    \E i \in DOMAIN a : a[i] < b[i] /\ \A j \in 1 .. (i - 1) : a[j] = b[j]

\* C6: the less-than relation on parameters is a strict total order (of two
\* distinct parameters exactly one is less than the other, and the relation
\* is transitive) that coincides with the lexicographic comparison of
\* (required, default absent, location rank, name).
C6_StrictTotalOrder ==
    ord.compared =>
        \A i, j \in DOMAIN ord.params :
            /\ i # j => (ord.less[i][j] # ord.less[j][i])
            /\ \A k \in DOMAIN ord.params :
                  (ord.less[i][j] /\ ord.less[j][k]) => ord.less[i][k]
            /\ ord.less[i][j] = LexLess(SortKey(ord.params[i]),
                                        SortKey(ord.params[j]))

\* The names of the declared parameters in the order the signature has them
SignatureOrder(signature, params_) ==
    LET declared == SelectSeq(signature,
                        LAMBDA s : \E i \in DOMAIN params_ :
                                       params_[i].name = s.name)
    IN  [i \in DOMAIN declared |-> declared[i].name]

\* The declared list in every order
Reordered(params_) ==
    {[i \in DOMAIN params_ |-> params_[pi[i]]] :
        pi \in {f \in [DOMAIN params_ -> DOMAIN params_] :
                   \A i, j \in DOMAIN params_ : i # j => f[i] # f[j]}}

\* The parameters are {required path P, optional query Q with a default,
\* required header H}, P and H without a default
IsPQH(params_) ==
    /\ {params_[i] : i \in DOMAIN params_} =
          {PathParameter([in |-> "path", name |-> "P", required |-> TRUE]),
           PathParameter([in |-> "query", name |-> "Q", required |-> FALSE]),
           PathParameter([in |-> "header", name |-> "H", required |-> TRUE])}
    /\ DOMAIN session.defaults = {"Q"}

\* C7: the order of the path/query/header/cookie parameters in the derived
\* signature depends only on the set of parameters, not on the order they
\* are declared in, and for {required path P, optional query Q with
\* default, required header H} it is P, H, Q.
C7_SignatureOrder ==
    ord.signed =>
        /\ \A ps \in Reordered(ord.params) :
              SignatureOrder(_make_signature(ps, ord.body), ps) =
                  SignatureOrder(ord.signature, ord.params)
        /\ IsPQH(ord.params) =>
              SignatureOrder(ord.signature, ord.params) = <<"P", "H", "Q">>

\* The server the claim has load select: the first declared server the
\* session validates, and without a session or without a validated
\* candidate the first declared server
ExpectedServer(specs, sess) ==
    LET validated == {i \in DOMAIN specs :
                         HasSession(sess) /\ validate_server(sess, specs[i])}
    IN  IF validated # {} THEN specs[FirstOf(validated)] ELSE specs[1]

\* C11: when the document declares at least one server, load selects the
\* first declared server the session validates, and otherwise (no session,
\* or no candidate validates) the first declared server; load never fails
\* because no candidate validated.
C11_ServerSelected ==
    (/\ ld.pc \in {"constructed", "failed"}
     /\ {"openapi", "info", "paths"} \subseteq DOMAIN ld.doc
     /\ Len(DictGet(ld.doc, "servers", <<>>)) > 0) =>
        /\ ld.exc.cls # "IndexError"
        /\ ld.pc = "constructed" =>
              ld.client.server.spec = ExpectedServer(ld.doc.servers, session)

\* C12: the closure of an operation is built at most once: however the
\* first invocations of an operation interleave, _gen_call runs once for
\* it, and every invocation runs that one closure.
C12_ClosureBuiltOnce ==
    /\ \A o \in DOMAIN op_call : op_call[o].gens <= 1
    /\ \A t \in Callers :
          frame[t].pc \notin {"idle", "gen", "invoke"} => frame[t].closure = 1

\* The signature has a content_type parameter that no declared parameter
\* brought in
InjectedContentType(signature, params_) ==
    Cardinality({i \in DOMAIN signature :
                    signature[i].name = CONTENT_TYPE_PYTHON_PARAM})
        > Cardinality({i \in DOMAIN params_ :
                          params_[i].name = CONTENT_TYPE_PYTHON_PARAM})

\* C13: the derived signature gets an explicit content_type parameter if
\* and only if the request body declares more than one content type and no
\* declared parameter is named content_type; a body with exactly one
\* content type gets none.
C13_ContentTypeInjected ==
    ord.signed =>
        (InjectedContentType(ord.signature, ord.params)
            <=> /\ ord.body.present
                /\ Cardinality(DOMAIN ord.body.content) > 1
                /\ \A i \in DOMAIN ord.params :
                      ord.params[i].name # CONTENT_TYPE_PYTHON_PARAM)

\* The body variant a dispatched request was serialized with: the variant
\* of the Content-Type header it carries
DispatchedVariant(f) ==
    ClientOperations[f.op].body.content[
        f.request.kwargs["headers"].v[CONTENT_TYPE_PARAM].v]

\* C14: when the object variant of a body is optional and the call supplies
\* none of its declared properties, serialization fails with the "at least
\* one of the properties must be specified" error: no such call is
\* dispatched, and a call that failed with that error dispatched nothing.
C14_OptionalObjectEmpty ==
    LET f == frame[1]
    IN  /\ (f.pc = "returned" /\ ClientOperations[f.op].body.present) =>
              LET bp == DispatchedVariant(f)
              IN  (bp.kind = "object" /\ ~bp.required) =>
                      bp.properties \cap DOMAIN f.args # {}
        /\ (f.exc.msg = "at least one" \/ f.exc.cause = "at least one") =>
              f.request = NoRequest

(***************************************************************************)
(* SpecServer: Server.__init__ on a drawn server spec and the caller's     *)
(* variables, then Server.url.                                             *)
(***************************************************************************)
\* The URL templates of the drawn server specs
UrlTemplates ==
    {<<[lit |-> "https://api"]>>,
     <<[lit |-> "https://"], [ph |-> "region"], [lit |-> ".api"]>>,
     <<[lit |-> "https://"], [ph |-> "region"], [lit |-> "."], [ph |-> "env"],
       [lit |-> ".api"]>>}

VariableNames == {"region", "env"}

\* The default the spec declares for a variable
SpecDefault(k) == IF k = "region" THEN Str("us") ELSE Str("prod")

\* The value a caller overrides a variable with
Override(k) == IF k = "region" THEN Str("eu") ELSE Str("dev")

\* The drawn server specs: a template, with or without declared variables,
\* with or without the session-endpoint flag
ServerSpecs ==
    LET plain == {[url |-> u] : u \in UrlTemplates}
        declared == {DictSet(sp, "variables",
                             [k \in D |-> [default |-> SpecDefault(k)]]) :
                        sp \in plain, D \in SUBSET VariableNames}
        all == plain \cup declared
    IN  all \cup {DictSet(sp, "x-alertlogic-session-endpoint", TRUE) : sp \in all}

\* The variables argument: None, or overrides for some of the variables
VariableOverrides ==
    {PyNone} \cup {[k \in D |-> Override(k)] : D \in SUBSET VariableNames}

NoUrl == [exc |-> NoExc, url |-> ""]

InitServer ==
    /\ server_url = InitialServerUrl
    /\ session = [defaults |-> EmptyDict]
    /\ frame = [t \in Callers |-> IdleFrame]
    /\ q = IdleQuery
    /\ ord = IdleOrder
    /\ ld = IdleLoad
    /\ op_call = NoClosures
    /\ sv \in {[pc |-> "drawn", spec |-> sp, variables |-> v,
                 server |-> NoServer, out |-> NoUrl] :
                   sp \in ServerSpecs, v \in VariableOverrides}

\* Server(service_name, spec, session, variables)
NewServer ==
    /\ sv.pc = "drawn"
    /\ sv' = [sv EXCEPT !.pc = "built",
                        !.server = Server(sv.spec, session, sv.variables)]
    /\ UNCHANGED <<server_url, session, frame, q, ord, ld, op_call>>

\* server.url
GetUrl ==
    /\ sv.pc = "built"
    /\ sv' = [sv EXCEPT !.pc = "resolved", !.out = Server_url(sv.server)]
    /\ UNCHANGED <<server_url, session, frame, q, ord, ld, op_call>>

NextServer ==
    \/ NewServer
    \/ GetUrl

SpecServer == InitServer /\ [][NextServer]_vars

\* The variables of a template
TemplateVariables(parts) ==
    {parts[i].ph : i \in {j \in DOMAIN parts : "ph" \in DOMAIN parts[j]}}

\* The value the claim resolves variable k with: the caller's override when
\* one is given for k, else the default the spec declares for k
ResolvedValue(spec, variables, k) ==
    IF variables # PyNone /\ k \in DOMAIN variables THEN variables[k]
    ELSE spec.variables[k].default

\* Every variable of the template has an override or a declared default
Resolvable(spec, variables, parts) ==
    \A k \in TemplateVariables(parts) :
        \/ variables # PyNone /\ k \in DOMAIN variables
        \/ "variables" \in DOMAIN spec /\ k \in DOMAIN spec.variables

\* C15: every variable of a server's URL template is resolved with the
\* caller's override when one is given for that variable and otherwise
\* with the default the spec declares for it; overrides for only some of
\* the variables leave the others resolved from their defaults.
C15_VariablesResolved ==
    (/\ sv.pc = "resolved"
     /\ Resolvable(sv.spec, sv.variables, sv.server.url)) =>
        /\ sv.out.exc = NoExc
        /\ sv.out.url =
              Join("", [i \in DOMAIN sv.server.url |->
                           IF "ph" \in DOMAIN sv.server.url[i]
                           THEN ResolvedValue(sv.spec, sv.variables,
                                              sv.server.url[i].ph).v
                           ELSE sv.server.url[i].lit])

\* C16: loading is a read-only traversal of the source document: after the
\* load the caller's document, with each operation's summary, description,
\* requestBody and responses, is as it was, and loading the same document
\* object a second time yields the same operations with the same bodies.
C16_LoadReadOnly ==
    (ld.pc = "constructed" /\ ~ld.was_set) =>
        /\ ld.source = ld.doc
        /\ ld.second.done =>
              /\ ld.second.exc = NoExc
              /\ ld.second.operations = ld.client.operations

\* The client's operations right after the load of the drawn document
OperationsAfterLoad == load_spec(ClientName, ld.doc, session).client.operations

\* C17: after a successful load, set_server(s) never fails and leaves the
\* client with the operation identifiers it had right after the load, each
\* operation keeping its request body and its response.
C17_SetServerKeepsOperations ==
    (ld.pc = "constructed" /\ ld.was_set) =>
        /\ ld.set_exc = NoExc
        /\ DOMAIN ld.client.operations = DOMAIN OperationsAfterLoad
        /\ \A id \in DOMAIN ld.client.operations :
              /\ ld.client.operations[id].body = OperationsAfterLoad[id].body
              /\ ld.client.operations[id].response =
                    OperationsAfterLoad[id].response

\* C18: a call that fails during parameter serialization, content type
\* negotiation or body validation leaves the shared Server's URL equal to
\* its value before the call, even when the call supplied account_id.
C18_FailedCallKeepsUrl ==
    frame[1].pc \in {"raised", "failed"} =>
        server_url = frame[1].url_at_call

====
